---- MODULE Spec2Model ----
(***************************************************************************)
(* A model of execexam/main.py: the pure extraction functions and the      *)
(* `run` command (main thread plus the litellm loader thread).             *)
(*                                                                         *)
(* Text is a sequence of tokens.  The tokens "/", ":", "\n" and "\r" are   *)
(* single characters; every other token is a run of characters holding    *)
(* no separator.  A Path is the sequence of its pathlib parts, the root    *)
(* "/" being the first part of an absolute path.  A dict is a record whose *)
(* DOMAIN is its key set; an ordered dict of display pairs is a sequence   *)
(* of <<key, value>>.                                                       *)
(***************************************************************************)
EXTENDS Integers, Sequences, FiniteSets, TLC

VARIABLES
    fn_call,                  \* pure-function harness: the call being made
    fn_ret,                   \* pure-function harness: its result
    mainpc,                   \* position of the main thread inside run()
    litellm_thread,           \* state of the thread running load_litellm
    sys_stdout,               \* what sys.stdout is bound to
    sys_stderr,               \* what sys.stderr is bound to
    verbose,                  \* the --verbose option
    report,                   \* json_report_plugin.report
    execexam_report,          \* exec_exam_pytest_plugin.reports
    captured_output,          \* captured_output.getvalue()
    test_overview,            \* filtered_test_output + assertion details
    failing_test_details,     \* first component of extract_failing_test_details
    failing_test_path_dicts,  \* second component
    return_code,              \* local return_code of run()
    exit_code,                \* status the process ends with (-1: running)
    error,                    \* exception that ended run(), "none" otherwise
    console                   \* titles of the panels printed so far

vars == <<fn_call, fn_ret, mainpc, litellm_thread, sys_stdout, sys_stderr,
          verbose, report, execexam_report, captured_output, test_overview,
          failing_test_details, failing_test_path_dicts, return_code,
          exit_code, error, console>>

fnVars == <<fn_call, fn_ret>>

runVars == <<mainpc, litellm_thread, sys_stdout, sys_stderr, verbose, report,
             execexam_report, captured_output, test_overview,
             failing_test_details, failing_test_path_dicts, return_code,
             exit_code, error, console>>

(***************************************************************************)
(* Bounds                                                                  *)
(***************************************************************************)
MaxTests == 2        \* longest tests list handed to the locator
MaxSegs == 6         \* most segments of a path handed to path_to_string
MaxOutLen == 4       \* longest captured output (in characters)
MaxReports == 2      \* longest list of assertion reports
MaxRunTests == 2     \* longest tests list a modelled pytest run produces

(***************************************************************************)
(* Generic sequence helpers                                                *)
(***************************************************************************)
RECURSIVE Flatten(_)
Flatten(ss) == IF ss = <<>> THEN <<>> ELSE Head(ss) \o Flatten(Tail(ss))

RECURSIVE JoinWith(_, _)
JoinWith(ss, sep) ==
    IF ss = <<>> THEN <<>>
    ELSE IF Len(ss) = 1 THEN ss[1]
    ELSE ss[1] \o sep \o JoinWith(Tail(ss), sep)

SeqsUpTo(S, n) == UNION {[1..k -> S] : k \in 0..n}

MaxOf(S) == CHOOSE m \in S : \A x \in S : x <= m

KeyError == [error |-> "KeyError"]

(***************************************************************************)
(* str and pathlib primitives used by the source                           *)
(***************************************************************************)
\* str(n) for a non-negative int, as the f-string at line 182 formats it
Digit(d) == <<"0", "1", "2", "3", "4", "5", "6", "7", "8", "9">>[d + 1]

RECURSIVE IntToStr(_)
IntToStr(n) == IF n < 10 THEN <<Digit(n)>>
               ELSE Append(IntToStr(n \div 10), Digit(n % 10))

\* s.split(sep) for a one-character separator: empty pieces are kept
RECURSIVE SplitChar(_, _, _, _, _)
SplitChar(s, sep, i, cur, acc) ==
    IF i > Len(s) THEN Append(acc, cur)
    ELSE IF s[i] = sep THEN SplitChar(s, sep, i + 1, <<>>, Append(acc, cur))
    ELSE SplitChar(s, sep, i + 1, Append(cur, s[i]), acc)

\* nodeid.split("::"): left-to-right, non-overlapping, empty pieces kept
RECURSIVE SplitColons(_, _, _, _)
SplitColons(s, i, cur, acc) ==
    IF i > Len(s) THEN Append(acc, cur)
    ELSE IF i < Len(s) /\ s[i] = ":" /\ s[i + 1] = ":"
         THEN SplitColons(s, i + 2, <<>>, Append(acc, cur))
         ELSE SplitColons(s, i + 1, Append(cur, s[i]), acc)

split_nodeid(nodeid) == SplitColons(nodeid, 1, <<>>, <<>>)

\* name.rsplit("/", 1)[-1]: the text after the last "/", all of it if none
rsplit_last(name) ==
    LET slashes == {i \in 1..Len(name) : name[i] = "/"}
    IN  IF slashes = {} THEN name
        ELSE SubSeq(name, MaxOf(slashes) + 1, Len(name))

\* Path(s).parts on POSIX: the root (a lone leading "//" is kept as "//"),
\* then the components, empty and "." components dropped.  Each part is
\* itself a text.
PathRoot(s) ==
    IF Len(s) >= 1 /\ s[1] = "/"
    THEN IF Len(s) >= 2 /\ s[2] = "/" /\ ~(Len(s) >= 3 /\ s[3] = "/")
         THEN << <<"/", "/">> >> ELSE << <<"/">> >>
    ELSE <<>>

PathOf(s) ==
    PathRoot(s) \o SelectSeq(SplitChar(s, "/", 1, <<>>, <<>>),
                             LAMBDA c : c # <<>> /\ c # <<".">>)

\* Path(a) / b: an absolute right operand replaces the left one
PathJoin(a, b) ==
    IF Len(b) >= 1 /\ b[1] = "/" THEN PathOf(b) ELSE PathOf(a) \o PathOf(b)

IsRootPart(part) == part \in {<<"/">>, <<"/", "/">>}

\* Path.as_posix(): the empty path is ".", the root is not followed by "/"
as_posix(parts) ==
    IF parts = <<>> THEN <<".">>
    ELSE IF IsRootPart(parts[1])
         THEN parts[1] \o JoinWith(Tail(parts), <<"/">>)
         ELSE JoinWith(parts, <<"/">>)

(***************************************************************************)
(* path_to_string, lines 45-51                                             *)
(***************************************************************************)
path_to_string(path_name, levels) ==
    LET parts == path_name
    IN  IF Len(parts) > levels
        THEN as_posix(<< <<"<...>">> >> \o
                      SubSeq(parts, Len(parts) - levels + 1, Len(parts)))
        ELSE as_posix(path_name)

(***************************************************************************)
(* extract_details and extract_test_run_details, lines 54-70               *)
(***************************************************************************)
\* details is an ordered dict of <<category, count>>
extract_details(details) ==
    <<"Details: ">> \o
    JoinWith([k \in 1..Len(details) |->
                 IntToStr(details[k][2]) \o <<" ", details[k][1]>>],
             <<", ">>)

extract_test_run_details(details) ==
    IF "summary" \notin DOMAIN details THEN KeyError
    ELSE [error |-> "none", text |-> extract_details(details.summary)]

(***************************************************************************)
(* extract_test_assertion_details, lines 73-94                             *)
(***************************************************************************)
RECURSIVE AssertionLoop(_, _, _, _)
AssertionLoop(test_details, k, first, output) ==
    IF k > Len(test_details) THEN Flatten(output)
    ELSE LET key == test_details[k][1]
             value == test_details[k][2]
         IN  IF first
             THEN AssertionLoop(test_details, k + 1, FALSE,
                                << <<"  - ">>, <<key, ": ", value, "\n">> >>)
             ELSE AssertionLoop(test_details, k + 1, FALSE,
                                Append(output, <<"    ", key, ": ", value, "\n">>))

extract_test_assertion_details(test_details) ==
    AssertionLoop(test_details, 1, TRUE, <<>>)

(***************************************************************************)
(* extract_test_assertion_details_list, lines 97-104                       *)
(***************************************************************************)
extract_test_assertion_details_list(details) ==
    Flatten([k \in 1..Len(details) |->
                extract_test_assertion_details(details[k])])

(***************************************************************************)
(* extract_test_assertions_details, lines 107-130                          *)
(***************************************************************************)
display_name_Mut(test_name) ==
    LET slashes == {i \in 1..Len(test_name) : test_name[i] = "/"}
    IN  IF slashes = {} THEN test_name
        ELSE SubSeq(test_name,
                    (CHOOSE m \in slashes : \A x \in slashes : m <= x) + 1,
                    Len(test_name))

\* line 121
display_name(test_name) == rsplit_last(test_name)

RECURSIVE AssertionsLoop(_, _, _)
AssertionsLoop(test_reports, k, test_report_string) ==
    IF k > Len(test_reports)
    THEN [error |-> "none", text |-> test_report_string]
    ELSE LET test_report == test_reports[k]
         IN  IF "nodeid" \notin DOMAIN test_report THEN KeyError
             ELSE LET header == <<"\n">> \o display_name(test_report.nodeid)
                                         \o <<"\n">>
                      body == IF "assertions" \in DOMAIN test_report
                              THEN extract_test_assertion_details_list(
                                       test_report.assertions)
                              ELSE <<>>
                  IN  AssertionsLoop(test_reports, k + 1,
                                     test_report_string \o header \o body)

extract_test_assertions_details(test_reports) ==
    AssertionsLoop(test_reports, 1, <<>>)

(***************************************************************************)
(* extract_failing_test_details, lines 133-185                             *)
(***************************************************************************)
initial_failing_details_str_Mut == <<>>

\* line 142
initial_failing_details_str == <<"\n">>

is_failed_Mut(test) == test.outcome # "passed"

\* line 147
is_failed(test) == test.outcome = "failed"

failing_test_name_Mut(failing_test_nodeid_split) ==
    failing_test_nodeid_split[1]

\* line 170
failing_test_name(failing_test_nodeid_split) ==
    failing_test_nodeid_split[Len(failing_test_nodeid_split)]

RECURSIVE FailingLoop(_, _, _, _)
FailingLoop(details, k, failing_details_str, failing_test_paths) ==
    IF k > Len(details.tests)
    THEN [error |-> "none", text |-> failing_details_str,
          locs |-> failing_test_paths]
    ELSE LET test == details.tests[k]
         IN  IF "outcome" \notin DOMAIN test THEN KeyError
             ELSE IF ~is_failed(test)
             THEN FailingLoop(details, k + 1, failing_details_str,
                              failing_test_paths)
             ELSE IF \/ "nodeid" \notin DOMAIN test
                     \/ "call" \notin DOMAIN test
                     \/ "crash" \notin DOMAIN test.call
                     \/ "root" \notin DOMAIN details
                     \/ "lineno" \notin DOMAIN test.call.crash
                     \/ "message" \notin DOMAIN test.call.crash
             THEN KeyError
             ELSE LET nodeid == test.nodeid
                      crash == test.call.crash
                      nodeid_split == split_nodeid(nodeid)
                      failing_test_path == PathJoin(details.root, nodeid_split[1])
                      current == [test_name |-> failing_test_name(nodeid_split),
                                  test_path |-> failing_test_path]
                      block == <<"  Name: ">> \o nodeid \o <<"\n">>
                               \o <<"  Path: ">>
                               \o path_to_string(failing_test_path, 4)
                               \o <<"\n">>
                               \o <<"  Line number: ">>
                               \o IntToStr(crash.lineno) \o <<"\n">>
                               \o <<"  Message: ">> \o crash.message
                               \o <<"\n">>
                  IN  FailingLoop(details, k + 1, failing_details_str \o block,
                                  Append(failing_test_paths, current))

extract_failing_test_details(details) ==
    IF "tests" \notin DOMAIN details THEN KeyError
    ELSE FailingLoop(details, 1, initial_failing_details_str, <<>>)

(***************************************************************************)
(* filter_test_output, lines 188-198                                       *)
(***************************************************************************)
\* str.splitlines(): "\n", "\r" and "\r\n" end a line; no trailing empty
\* line.  (The rarer boundaries \v, \f, \x1c.. are not in the alphabet.)
RECURSIVE SplitLines(_, _, _, _)
SplitLines(s, i, cur, acc) ==
    IF i > Len(s) THEN (IF cur = <<>> THEN acc ELSE Append(acc, cur))
    ELSE IF s[i] = "\r" /\ i < Len(s) /\ s[i + 1] = "\n"
         THEN SplitLines(s, i + 2, <<>>, Append(acc, cur))
    ELSE IF s[i] \in {"\n", "\r"}
         THEN SplitLines(s, i + 1, <<>>, Append(acc, cur))
    ELSE SplitLines(s, i + 1, Append(cur, s[i]), acc)

splitlines(s) == SplitLines(s, 1, <<>>, <<>>)

Lower(c) == IF c = "F" THEN "f" ELSE IF c = "A" THEN "a" ELSE c

label_in_line_Mut(keep_line_label, line) ==
    \E i \in 0..(Len(line) - Len(keep_line_label)) :
        \A j \in 1..Len(keep_line_label) :
            Lower(line[i + j]) = Lower(keep_line_label[j])

\* line 195: keep_line_label in line
label_in_line(keep_line_label, line) ==
    \E i \in 0..(Len(line) - Len(keep_line_label)) :
        SubSeq(line, i + 1, i + Len(keep_line_label)) = keep_line_label

RECURSIVE FilterLoop(_, _, _, _)
FilterLoop(keep_line_label, lines, k, filtered_output) ==
    IF k > Len(lines) THEN filtered_output
    ELSE IF label_in_line(keep_line_label, lines[k])
         THEN FilterLoop(keep_line_label, lines, k + 1,
                         filtered_output \o lines[k] \o <<"\n">>)
         ELSE FilterLoop(keep_line_label, lines, k + 1, filtered_output)

filter_test_output(keep_line_label, output) ==
    FilterLoop(keep_line_label, splitlines(output), 1, <<>>)

(***************************************************************************)
(* is_failing_test_details_empty, lines 201-205                            *)
(***************************************************************************)
is_failing_test_details_empty_Mut(details) ==
    Len(details) > 0 /\ details[1] = "\n"

is_failing_test_details_empty(details) == details = <<"\n">>

(***************************************************************************)
(* Inputs of the pure functions                                            *)
(***************************************************************************)
NoCall == [fn |-> "none"]
NoRet == [error |-> "pending"]

PathSegments == {<<"a">>, <<"b">>}
Paths == {rt \o segs : rt \in {<<>>, << <<"/">> >>},
                       segs \in SeqsUpTo(PathSegments, MaxSegs)}

OutputChars == {"F", "f", "A", "\n", "\r"}
Outputs == SeqsUpTo(OutputChars, MaxOutLen)
Labels == {<<>>, <<"F">>, <<"F", "A">>}

Roots == {<<"/", "work">>, <<"/", "home", "/", "u", "/", "exam">>, <<"exam">>}
NodeIds == {<<"tests", "/", "test_math.py", ":", ":", "test_add">>,
            <<"test_q.py", ":", ":", "TestC", ":", ":", "test_m">>,
            <<"t", "/", "u", "/", "test_z.py", ":", ":", "test_z[1]">>,
            <<"test_solo">>}
Crashes == {[lineno |-> 12, message |-> <<"assert 1 == 2">>],
            [lineno |-> 7, message |-> <<"boom">>]}
OtherOutcomes == {"passed", "skipped", "error"}
Summary == << <<"passed", 2>>, <<"failed", 1>>, <<"total", 3>> >>

FailedRecords == {[nodeid |-> n, outcome |-> "failed", call |-> [crash |-> c]] :
                     n \in NodeIds, c \in Crashes}
OtherRecords == {[nodeid |-> n, outcome |-> o] :
                     n \in NodeIds, o \in OtherOutcomes}
TestRecords == FailedRecords \cup OtherRecords
TestRunReports == {[root |-> r, summary |-> Summary, tests |-> ts] :
                      r \in Roots, ts \in SeqsUpTo(TestRecords, MaxTests)}

AssertionRecordA == << <<"assertion", "x == 1">>, <<"expected", "1">>,
                       <<"actual", "2">> >>
AssertionRecordB == << <<"assertion", "y">> >>
AssertionLists == {<<>>, <<AssertionRecordA>>,
                   <<AssertionRecordB, AssertionRecordA>>, << <<>> >>}
ReportNodeIds == {<<"project", "/", "tests", "/", "test_x.py", ":", ":",
                    "test_case">>,
                  <<"tests", "/", "test_x.py", ":", ":", "test_case">>,
                  <<"test_x.py", ":", ":", "test_case">>}
AssertionReports ==
    {[nodeid |-> n] : n \in ReportNodeIds} \cup
    {[nodeid |-> n, assertions |-> a] : n \in ReportNodeIds,
                                        a \in AssertionLists}

(***************************************************************************)
(* The pure functions, each applied once to an input                       *)
(***************************************************************************)
FnIdle ==
    /\ mainpc = "none"
    /\ litellm_thread = "none"
    /\ sys_stdout = "__stdout__"
    /\ sys_stderr = "__stderr__"
    /\ verbose = FALSE
    /\ report = <<>>
    /\ execexam_report = <<>>
    /\ captured_output = <<>>
    /\ test_overview = <<>>
    /\ failing_test_details = <<>>
    /\ failing_test_path_dicts = <<>>
    /\ return_code = 0
    /\ exit_code = -1
    /\ error = "none"
    /\ console = <<>>

FnInit ==
    /\ fn_ret = NoRet
    /\ FnIdle
    /\ \/ \E p \in Paths :
            fn_call = [fn |-> "path_to_string", path_name |-> p, levels |-> 4]
       \/ \E l \in Labels, o \in Outputs :
            fn_call = [fn |-> "filter_test_output", keep_line_label |-> l,
                       output |-> o]
       \/ \E d \in TestRunReports :
            fn_call = [fn |-> "extract_failing_test_details", details |-> d]
       \/ \E rs \in SeqsUpTo(AssertionReports, MaxReports) :
            fn_call = [fn |-> "extract_test_assertions_details",
                       test_reports |-> rs]

Returned(f) == fn_call.fn = f /\ fn_ret # NoRet

CallPathToString ==
    /\ fn_call.fn = "path_to_string" /\ fn_ret = NoRet
    /\ fn_ret' = [error |-> "none",
                  text |-> path_to_string(fn_call.path_name, fn_call.levels)]
    /\ UNCHANGED <<fn_call, runVars>>

CallFilterTestOutput ==
    /\ fn_call.fn = "filter_test_output" /\ fn_ret = NoRet
    /\ fn_ret' = [error |-> "none",
                  text |-> filter_test_output(fn_call.keep_line_label,
                                              fn_call.output)]
    /\ UNCHANGED <<fn_call, runVars>>

CallExtractFailingTestDetails ==
    /\ fn_call.fn = "extract_failing_test_details" /\ fn_ret = NoRet
    /\ fn_ret' = extract_failing_test_details(fn_call.details)
    /\ UNCHANGED <<fn_call, runVars>>

CallExtractTestAssertionsDetails ==
    /\ fn_call.fn = "extract_test_assertions_details" /\ fn_ret = NoRet
    /\ fn_ret' = extract_test_assertions_details(fn_call.test_reports)
    /\ UNCHANGED <<fn_call, runVars>>

FnNext ==
    \/ CallPathToString
    \/ CallFilterTestOutput
    \/ CallExtractFailingTestDetails
    \/ CallExtractTestAssertionsDetails

FnSpec == FnInit /\ [][FnNext]_vars

(***************************************************************************)
(* Properties of the pure functions (checked under FnSpec)                 *)
(***************************************************************************)
FailedIndexes(details) ==
    {k \in 1..Len(details.tests) :
        /\ "outcome" \in DOMAIN details.tests[k]
        /\ details.tests[k].outcome = "failed"}

FailedCount(details) == Cardinality(FailedIndexes(details))

\* C1: for a report with no record of outcome "failed" (an empty tests list
\* included), extract_failing_test_details returns the text "\n" and an
\* empty location list, and is_failing_test_details_empty of it is true.
C1_NoFailedGivesSentinel ==
    (Returned("extract_failing_test_details")
        /\ FailedCount(fn_call.details) = 0)
    => /\ fn_ret.error = "none"
       /\ fn_ret.text = <<"\n">>
       /\ fn_ret.locs = <<>>
       /\ is_failing_test_details_empty(fn_ret.text)

C1_Witness ==
    /\ Returned("extract_failing_test_details")
    /\ FailedCount(fn_call.details) = 0
    /\ \E k \in 1..Len(fn_call.details.tests) :
          fn_call.details.tests[k].outcome = "error"
    /\ is_failing_test_details_empty(fn_ret.text)

\* C2: for a report with at least one record of outcome "failed", the
\* returned text is not the empty sentinel and the location list is as long
\* as the number of failed records.
C2_FailedGivesDetails ==
    (Returned("extract_failing_test_details")
        /\ FailedCount(fn_call.details) >= 1)
    => /\ fn_ret.error = "none"
       /\ ~is_failing_test_details_empty(fn_ret.text)
       /\ Len(fn_ret.locs) = FailedCount(fn_call.details)

C2_Witness ==
    /\ Returned("extract_failing_test_details")
    /\ FailedCount(fn_call.details) >= 1
    /\ FailedCount(fn_call.details) < Len(fn_call.details.tests)
    /\ Len(fn_ret.locs) = FailedCount(fn_call.details)

\* The segments of a path: its parts without the root
PathSegs(path) ==
    IF path # <<>> /\ IsRootPart(path[1]) THEN Tail(path) ELSE path

\* C6 (as claimed): with levels 4, a path of more than 4 segments renders as
\* "<...>/" followed by its last 4 segments, and a path of 4 or fewer
\* segments, absolute or relative, renders unchanged.
C6_ElisionBySegments ==
    Returned("path_to_string")
    => LET segs == PathSegs(fn_call.path_name)
           n == Len(segs)
       IN  fn_ret.text =
             IF n > 4
             THEN <<"<...>", "/">> \o JoinWith(SubSeq(segs, n - 3, n), <<"/">>)
             ELSE as_posix(fn_call.path_name)

HasSub(sub, line) ==
    \E i \in 1..(Len(line) + 1) :
        \A j \in 1..Len(sub) :
            i + j - 1 <= Len(line) /\ line[i + j - 1] = sub[j]

\* C7: filter_test_output returns exactly the lines of output that contain
\* the label as a case-sensitive substring, in their original order, each
\* followed by one newline; it returns the empty text when no line matches.
C7_FilterKeepsLabelledLines ==
    Returned("filter_test_output")
    => LET lines == splitlines(fn_call.output)
           keptIdx == {k \in 1..Len(lines) :
                          HasSub(fn_call.keep_line_label, lines[k])}
           kept == SelectSeq(lines,
                             LAMBDA l : HasSub(fn_call.keep_line_label, l))
           outLines == SplitChar(fn_ret.text, "\n", 1, <<>>, <<>>)
       IN  /\ fn_ret.text = Flatten([k \in 1..Len(kept) |->
                                        kept[k] \o <<"\n">>])
           /\ (keptIdx = {} => fn_ret.text = <<>>)
           /\ Len(outLines) = Cardinality(keptIdx) + 1
           /\ outLines[Len(outLines)] = <<>>
           /\ \A k \in 1..(Len(outLines) - 1) :
                 HasSub(fn_call.keep_line_label, outLines[k])

C7_Witness ==
    /\ Returned("filter_test_output")
    /\ fn_call.keep_line_label = <<"F">>
    /\ Len(splitlines(fn_call.output)) = 2
    /\ \E k \in 1..2 : "f" \in {splitlines(fn_call.output)[k][i] :
                                i \in 1..Len(splitlines(fn_call.output)[k])}
    /\ fn_ret.text = <<"F", "\n">>

ColonPairs(s) == {i \in 1..(Len(s) - 1) : s[i] = ":" /\ s[i + 1] = ":"}

\* the text before the first "::" of a nodeid, all of it if there is none
FirstSegment(nodeid) ==
    IF ColonPairs(nodeid) = {} THEN nodeid
    ELSE SubSeq(nodeid, 1,
                (CHOOSE m \in ColonPairs(nodeid) :
                    \A x \in ColonPairs(nodeid) : m <= x) - 1)

\* the text after the last "::" of a nodeid, all of it if there is none
LastSegment(nodeid) ==
    IF ColonPairs(nodeid) = {} THEN nodeid
    ELSE SubSeq(nodeid, MaxOf(ColonPairs(nodeid)) + 2, Len(nodeid))

FailedBlock(test, loc) ==
    <<"  Name: ">> \o test.nodeid \o <<"\n", "  Path: ">>
    \o path_to_string(loc.test_path, 4)
    \o <<"\n", "  Line number: ">> \o IntToStr(test.call.crash.lineno)
    \o <<"\n", "  Message: ">> \o test.call.crash.message \o <<"\n">>

\* C8: the failed records of tests, in order and only they, each give one
\* location (test_name the last "::" segment of nodeid, test_path the full
\* path root joined with the first "::" segment) and one text block
\* Name/Path/Line number/Message; the i-th location and block belong to the
\* i-th failed record.
C8_LocationsFollowFailedRecords ==
    Returned("extract_failing_test_details")
    => LET details == fn_call.details
           failed == SelectSeq(details.tests, LAMBDA t : t.outcome = "failed")
       IN  /\ fn_ret.error = "none"
           /\ Len(fn_ret.locs) = Len(failed)
           /\ \A i \in 1..Len(failed) :
                 /\ fn_ret.locs[i].test_name = LastSegment(failed[i].nodeid)
                 /\ as_posix(fn_ret.locs[i].test_path) =
                       details.root \o <<"/">> \o FirstSegment(failed[i].nodeid)
           /\ fn_ret.text =
                 <<"\n">> \o Flatten([i \in 1..Len(fn_ret.locs) |->
                                        FailedBlock(failed[i], fn_ret.locs[i])])

C8_Witness ==
    /\ Returned("extract_failing_test_details")
    /\ Len(fn_call.details.tests) = 2
    /\ fn_call.details.root = <<"/", "work">>
    /\ fn_call.details.tests[1].outcome = "passed"
    /\ fn_call.details.tests[2] =
          [nodeid |-> <<"tests", "/", "test_math.py", ":", ":", "test_add">>,
           outcome |-> "failed",
           call |-> [crash |-> [lineno |-> 12,
                                message |-> <<"assert 1 == 2">>]]]
    /\ fn_ret.locs =
          << [test_name |-> <<"test_add">>,
              test_path |-> << <<"/">>, <<"work">>, <<"tests">>,
                               <<"test_math.py">> >>] >>
    /\ fn_ret.text =
          <<"\n", "  Name: ", "tests", "/", "test_math.py", ":", ":",
            "test_add", "\n", "  Path: ", "/", "work", "/", "tests", "/",
            "test_math.py", "\n", "  Line number: ", "1", "2", "\n",
            "  Message: ", "assert 1 == 2", "\n">>

\* the text after the last "/" of a nodeid: its only suffix that holds no
\* "/" and is the whole nodeid or is preceded by "/"
HeaderOf(nodeid) ==
    CHOOSE h \in {SubSeq(nodeid, i, Len(nodeid)) : i \in 1..(Len(nodeid) + 1)} :
        /\ \A j \in 1..Len(h) : h[j] # "/"
        /\ \/ h = nodeid
           \/ nodeid[Len(nodeid) - Len(h)] = "/"

ReportBlock(test_report) ==
    <<"\n">> \o HeaderOf(test_report.nodeid) \o <<"\n">> \o
    (IF "assertions" \in DOMAIN test_report /\ test_report.assertions # <<>>
     THEN extract_test_assertion_details_list(test_report.assertions)
     ELSE <<>>)

\* C9: extract_test_assertions_details emits, per report and in input order
\* (nothing reordered or dropped), a header line holding the text after the
\* last "/" of nodeid, then the formatted assertion list when assertions is
\* present and non-empty; otherwise the header line only.
C9_AssertionHeadersInOrder ==
    Returned("extract_test_assertions_details")
    => /\ fn_ret.error = "none"
       /\ fn_ret.text =
             Flatten([k \in 1..Len(fn_call.test_reports) |->
                         ReportBlock(fn_call.test_reports[k])])
       /\ \A k \in 1..Len(fn_call.test_reports) :
             LET r == fn_call.test_reports[k]
             IN  ("assertions" \notin DOMAIN r \/ r.assertions = <<>>)
                 => ReportBlock(r) = <<"\n">> \o HeaderOf(r.nodeid) \o <<"\n">>

C9_Witness ==
    /\ Returned("extract_test_assertions_details")
    /\ Len(fn_call.test_reports) = 2
    /\ fn_call.test_reports[1] = fn_call.test_reports[2]
    /\ "assertions" \notin DOMAIN fn_call.test_reports[1]
    /\ fn_call.test_reports[1].nodeid[1] = "project"
    /\ fn_ret.text = <<"\n", "test_x.py", ":", ":", "test_case", "\n",
                       "\n", "test_x.py", ":", ":", "test_case", "\n">>

(***************************************************************************)
(* The run command, lines 208-459, and the loader thread, lines 34-42      *)
(***************************************************************************)
\* what one pytest run can leave behind in json_report_plugin.report,
\* exec_exam_pytest_plugin.reports and the capture buffer
RunNodeId == <<"tests", "/", "test_math.py", ":", ":", "test_add">>
RunCrash == [lineno |-> 12, message |-> <<"assert 1 == 2">>]
RunRecords == {[nodeid |-> RunNodeId, outcome |-> "failed",
                call |-> [crash |-> RunCrash]],
               [nodeid |-> RunNodeId, outcome |-> "passed"],
               [nodeid |-> RunNodeId, outcome |-> "error"],
               [nodeid |-> RunNodeId, outcome |-> "failed"]}
RunTestLists == SeqsUpTo(RunRecords, MaxRunTests)
RunRoot == <<"/", "work">>
RunReports ==
    {[root |-> RunRoot, summary |-> Summary, tests |-> ts] : ts \in RunTestLists}
    \cup {[summary |-> Summary, tests |-> ts] : ts \in RunTestLists}
    \cup {[root |-> RunRoot, tests |-> ts] : ts \in RunTestLists}
    \cup {[root |-> RunRoot, summary |-> Summary]}
RunAssertionStreams ==
    {<<>>,
     <<[nodeid |-> RunNodeId, assertions |-> <<AssertionRecordA>>]>>,
     <<[assertions |-> <<AssertionRecordA>>]>>}
RunOutputs == {<<>>,
               <<"FAILED", " tests/test_math.py::test_add", "\n",
                 "1 failed", "\n">>}

\* Thread.is_alive(); Thread.join() blocks for as long as it holds
is_alive_Mut(thread) == FALSE

is_alive(thread) == thread = "running"

Init ==
    /\ fn_call = NoCall
    /\ fn_ret = NoRet
    /\ mainpc = "start"
    /\ litellm_thread = "unstarted"
    /\ sys_stdout = "__stdout__"
    /\ sys_stderr = "__stderr__"
    /\ verbose \in BOOLEAN
    /\ report = <<>>
    /\ execexam_report = <<>>
    /\ captured_output = <<>>
    /\ test_overview = <<>>
    /\ failing_test_details = <<>>
    /\ failing_test_path_dicts = <<>>
    /\ return_code = 0
    /\ exit_code = -1
    /\ error = "none"
    /\ console = <<>>

\* an exception nothing in run() catches ends the process with status 1
Raise(exception) ==
    /\ mainpc' = "crashed"
    /\ error' = exception
    /\ exit_code' = 1

\* lines 224-227
StartThread ==
    /\ mainpc = "start"
    /\ litellm_thread' = "running"
    /\ return_code' = 0
    /\ mainpc' = "params"
    /\ UNCHANGED <<fnVars, sys_stdout, sys_stderr, verbose, report,
                   execexam_report, captured_output, test_overview,
                   failing_test_details, failing_test_path_dicts, exit_code,
                   error, console>>

\* lines 229-246
PrintParameters ==
    /\ mainpc = "params"
    /\ console' = Append(console, "Parameter Information")
    /\ mainpc' = "redirect"
    /\ UNCHANGED <<fnVars, litellm_thread, sys_stdout, sys_stderr, verbose,
                   report, execexam_report, captured_output, test_overview,
                   failing_test_details, failing_test_path_dicts, return_code,
                   exit_code, error>>

\* lines 253-255
RedirectStreams ==
    /\ mainpc = "redirect"
    /\ sys_stdout' = "captured_output"
    /\ sys_stderr' = "captured_output"
    /\ mainpc' = "pytest"
    /\ UNCHANGED <<fnVars, litellm_thread, verbose, report, execexam_report,
                   captured_output, test_overview, failing_test_details,
                   failing_test_path_dicts, return_code, exit_code, error,
                   console>>

\* lines 258-294: pytest.main returns
PytestReturns ==
    /\ mainpc = "pytest"
    /\ \E r \in RunReports, a \in RunAssertionStreams, out \in RunOutputs :
          /\ report' = r
          /\ execexam_report' = a
          /\ captured_output' = out
    /\ mainpc' = "restore"
    /\ UNCHANGED <<fnVars, litellm_thread, sys_stdout, sys_stderr, verbose,
                   test_overview, failing_test_details,
                   failing_test_path_dicts, return_code, exit_code, error,
                   console>>

\* lines 258-294: pytest.main raises; nothing encloses the call
PytestRaises ==
    /\ mainpc = "pytest"
    /\ Raise("PytestError")
    /\ UNCHANGED <<fnVars, litellm_thread, sys_stdout, sys_stderr, verbose,
                   report, execexam_report, captured_output, test_overview,
                   failing_test_details, failing_test_path_dicts, return_code,
                   console>>

\* lines 298-299
RestoreStreams ==
    /\ mainpc = "restore"
    /\ sys_stdout' = "__stdout__"
    /\ sys_stderr' = "__stderr__"
    /\ mainpc' = "assertions"
    /\ UNCHANGED <<fnVars, litellm_thread, verbose, report, execexam_report,
                   captured_output, test_overview, failing_test_details,
                   failing_test_path_dicts, return_code, exit_code, error,
                   console>>

\* lines 302-307; test_overview holds exec_exam_test_assertion_details
\* until line 322 prefixes the filtered output
ExtractAssertions ==
    /\ mainpc = "assertions"
    /\ LET res == extract_test_assertions_details(execexam_report)
       IN  IF res.error = "KeyError"
           THEN Raise("KeyError") /\ UNCHANGED test_overview
           ELSE /\ test_overview' = res.text
                /\ mainpc' = "summary"
                /\ UNCHANGED <<error, exit_code>>
    /\ UNCHANGED <<fnVars, litellm_thread, sys_stdout, sys_stderr, verbose,
                   report, execexam_report, captured_output,
                   failing_test_details, failing_test_path_dicts, return_code,
                   console>>

\* line 309
ExtractRunDetails ==
    /\ mainpc = "summary"
    /\ IF extract_test_run_details(report).error = "KeyError"
       THEN Raise("KeyError")
       ELSE mainpc' = "overview" /\ UNCHANGED <<error, exit_code>>
    /\ UNCHANGED <<fnVars, litellm_thread, sys_stdout, sys_stderr, verbose,
                   report, execexam_report, captured_output, test_overview,
                   failing_test_details, failing_test_path_dicts, return_code,
                   console>>

\* lines 313-328
PrintTestOverview ==
    /\ mainpc = "overview"
    /\ LET filtered == filter_test_output(<<"FAILED">>, captured_output)
           filtered_test_output == IF filtered # <<>>
                                   THEN <<"\n">> \o filtered ELSE filtered
       IN  test_overview' = filtered_test_output \o test_overview
    /\ console' = Append(console, "Test Overview")
    /\ mainpc' = "locate"
    /\ UNCHANGED <<fnVars, litellm_thread, sys_stdout, sys_stderr, verbose,
                   report, execexam_report, captured_output,
                   failing_test_details, failing_test_path_dicts, return_code,
                   exit_code, error>>

\* lines 334-345
LocateFailures ==
    /\ mainpc = "locate"
    /\ LET res == extract_failing_test_details(report)
       IN  IF res.error = "KeyError"
           THEN /\ Raise("KeyError")
                /\ UNCHANGED <<failing_test_details, failing_test_path_dicts,
                               return_code>>
           ELSE /\ failing_test_details' = res.text
                /\ failing_test_path_dicts' = res.locs
                /\ IF ~is_failing_test_details_empty(res.text)
                   THEN /\ return_code' = 1
                        /\ mainpc' = IF verbose THEN "verbose" ELSE "wait"
                   ELSE /\ return_code' = return_code
                        /\ mainpc' = "wait"
                /\ UNCHANGED <<error, exit_code>>
    /\ UNCHANGED <<fnVars, litellm_thread, sys_stdout, sys_stderr, verbose,
                   report, execexam_report, captured_output, test_overview,
                   console>>

\* lines 345-387, every symbex subprocess succeeding
DisplayFailingTests ==
    /\ mainpc = "verbose"
    /\ console' = console \o <<"Failing Test Details">>
                          \o [k \in 1..Len(failing_test_path_dicts) |->
                                 "Failing Test Code"]
    /\ mainpc' = "wait"
    /\ UNCHANGED <<fnVars, litellm_thread, sys_stdout, sys_stderr, verbose,
                   report, execexam_report, captured_output, test_overview,
                   failing_test_details, failing_test_path_dicts, return_code,
                   exit_code, error>>

\* lines 345-370: subprocess.run(check=True) raises for the (done+1)-th test
SymbexFails ==
    /\ mainpc = "verbose"
    /\ \E done \in 0..(Len(failing_test_path_dicts) - 1) :
          console' = console \o <<"Failing Test Details">>
                             \o [k \in 1..done |-> "Failing Test Code"]
    /\ Raise("CalledProcessError")
    /\ UNCHANGED <<fnVars, litellm_thread, sys_stdout, sys_stderr, verbose,
                   report, execexam_report, captured_output, test_overview,
                   failing_test_details, failing_test_path_dicts, return_code>>

\* lines 390-393: the loop is left once the thread is no longer alive
WaitForLoader ==
    /\ mainpc = "wait"
    /\ ~is_alive(litellm_thread)
    /\ mainpc' = "join"
    /\ UNCHANGED <<fnVars, litellm_thread, sys_stdout, sys_stderr, verbose,
                   report, execexam_report, captured_output, test_overview,
                   failing_test_details, failing_test_path_dicts, return_code,
                   exit_code, error, console>>

\* line 394
JoinLoader ==
    /\ mainpc = "join"
    /\ ~is_alive(litellm_thread)
    /\ mainpc' = "feedback"
    /\ UNCHANGED <<fnVars, litellm_thread, sys_stdout, sys_stderr, verbose,
                   report, execexam_report, captured_output, test_overview,
                   failing_test_details, failing_test_path_dicts, return_code,
                   exit_code, error, console>>

\* lines 396-455, both advisory calls answering
GetFeedback ==
    /\ mainpc = "feedback"
    /\ litellm_thread = "done"
    /\ console' = console \o <<"ExecExam Assistant (API Key)",
                               "ExecExam Assistant (Fly.io)">>
    /\ mainpc' = "exit"
    /\ UNCHANGED <<fnVars, litellm_thread, sys_stdout, sys_stderr, verbose,
                   report, execexam_report, captured_output, test_overview,
                   failing_test_details, failing_test_path_dicts, return_code,
                   exit_code, error>>

\* lines 413-445: completion is unbound after a failed import, or one of
\* the two advisory calls raises
FeedbackFails ==
    /\ mainpc = "feedback"
    /\ \/ /\ litellm_thread = "failed"
          /\ Raise("NameError")
          /\ UNCHANGED console
       \/ /\ litellm_thread = "done"
          /\ Raise("AdvisoryError")
          /\ \E first_answered \in BOOLEAN :
                console' = console \o
                    (IF first_answered
                     THEN <<"ExecExam Assistant (API Key)">> ELSE <<>>)
    /\ UNCHANGED <<fnVars, litellm_thread, sys_stdout, sys_stderr, verbose,
                   report, execexam_report, captured_output, test_overview,
                   failing_test_details, failing_test_path_dicts, return_code>>

\* line 459
Exit ==
    /\ mainpc = "exit"
    /\ exit_code' = return_code
    /\ mainpc' = "exited"
    /\ UNCHANGED <<fnVars, litellm_thread, sys_stdout, sys_stderr, verbose,
                   report, execexam_report, captured_output, test_overview,
                   failing_test_details, failing_test_path_dicts, return_code,
                   error, console>>

\* lines 34-42: the import succeeds and binds completion
load_litellm ==
    /\ litellm_thread = "running"
    /\ litellm_thread' = "done"
    /\ UNCHANGED <<fnVars, mainpc, sys_stdout, sys_stderr, verbose, report,
                   execexam_report, captured_output, test_overview,
                   failing_test_details, failing_test_path_dicts, return_code,
                   exit_code, error, console>>

\* line 42: the import raises and the thread ends with completion unbound
load_litellm_fails ==
    /\ litellm_thread = "running"
    /\ litellm_thread' = "failed"
    /\ UNCHANGED <<fnVars, mainpc, sys_stdout, sys_stderr, verbose, report,
                   execexam_report, captured_output, test_overview,
                   failing_test_details, failing_test_path_dicts, return_code,
                   exit_code, error, console>>

MainNext ==
    \/ StartThread
    \/ PrintParameters
    \/ RedirectStreams
    \/ PytestReturns
    \/ PytestRaises
    \/ RestoreStreams
    \/ ExtractAssertions
    \/ ExtractRunDetails
    \/ PrintTestOverview
    \/ LocateFailures
    \/ DisplayFailingTests
    \/ SymbexFails
    \/ WaitForLoader
    \/ JoinLoader
    \/ GetFeedback
    \/ FeedbackFails
    \/ Exit

LoaderNext ==
    \/ load_litellm
    \/ load_litellm_fails

Next == MainNext \/ LoaderNext

Spec == Init /\ [][Next]_vars

\* both threads are scheduled: a thread that can step eventually does
FairSpec == Spec /\ WF_vars(MainNext) /\ WF_vars(LoaderNext)

(***************************************************************************)
(* Properties of the run command (checked under Spec and FairSpec)         *)
(***************************************************************************)
AfterTestRun ==
    mainpc \notin {"start", "params", "redirect", "pytest", "restore"}

\* C3 (as claimed): stdout and stderr point at the buffer only during the
\* external test run and are restored on every exit path from it, the one
\* where the test run raises included: after the test-run step neither
\* stream is bound to the buffer.
C3_StreamsRestoredOnEveryPath ==
    AfterTestRun => /\ sys_stdout = "__stdout__"
                    /\ sys_stderr = "__stderr__"

RunEnded == mainpc \in {"exited", "crashed"}

ReportHasFailedTest ==
    "tests" \in DOMAIN report /\ FailedCount(report) > 0

\* C4: when the report holds at least one record of outcome "failed", the
\* run ends with a non-zero exit code whatever verbose is, and the code
\* handed to sys.exit is the return_code set by the failing-test check.
C4_FailedTestsGiveNonZeroExit ==
    /\ (RunEnded /\ ReportHasFailedTest) => exit_code # 0
    /\ mainpc = "exited" =>
          /\ exit_code = return_code
          /\ return_code = IF ReportHasFailedTest THEN 1 ELSE 0

C4_Witness ==
    /\ mainpc = "exited"
    /\ ~verbose
    /\ ReportHasFailedTest
    /\ return_code = 1
    /\ exit_code = 1

\* the raw reports of this run lack a key the pipeline needs
ReportLacksRequiredKey ==
    \/ {"summary", "tests", "root"} \ DOMAIN report # {}
    \/ \E k \in 1..Len(execexam_report) :
          "nodeid" \notin DOMAIN execexam_report[k]
    \/ /\ "tests" \in DOMAIN report
       /\ \E k \in FailedIndexes(report) :
             \/ "nodeid" \notin DOMAIN report.tests[k]
             \/ "call" \notin DOMAIN report.tests[k]
             \/ "crash" \notin DOMAIN report.tests[k].call

\* the run is past its first use of the raw reports (line 305)
ReportsIngested ==
    \/ mainpc \in {"summary", "overview", "locate", "verbose", "wait", "join",
                   "feedback", "exit", "exited"}
    \/ mainpc = "crashed" /\ error # "PytestError"

\* C5 (as claimed): a report lacking a required key is rejected with a
\* MalformedReportError before any formatting, summarizing or locating
\* output is produced.
C5_MalformedReportRejected ==
    (ReportsIngested /\ ReportLacksRequiredKey)
    => /\ mainpc = "crashed"
       /\ error = "MalformedReportError"
       /\ console = <<"Parameter Information">>

CompletionReached ==
    \/ mainpc \in {"feedback", "exit", "exited"}
    \/ mainpc = "crashed" /\ error \in {"NameError", "AdvisoryError"}

LoaderEnded == litellm_thread \in {"done", "failed"}

\* C10: the advisory completion function is called only after the loader
\* thread has ended, in every interleaving of the two threads, and the main
\* thread's wait loop ends once the loader thread has ended.
C10_CompletionAfterLoaderEnds ==
    /\ [](CompletionReached => LoaderEnded)
    /\ ((mainpc = "wait" /\ LoaderEnded) ~> (mainpc # "wait"))

C10_Witness ==
    /\ mainpc = "exit"
    /\ litellm_thread = "done"
    /\ console[Len(console)] = "ExecExam Assistant (Fly.io)"

====
